---- MODULE Spec2Model ----
(***************************************************************************)
(* Model of Routes/Store.py: the credit purchase flow of the control       *)
(* panel (catalog, checkout, success, cancel) against the payment gateway. *)
(***************************************************************************)
EXTENDS Integers, Sequences, FiniteSets, TLC

VARIABLES
    sessionRef,    \* session['paystack_reference'], NoRef when the key is absent
    sessionEmail,  \* session['email'], NoEmail when absent
    secretKey,     \* whether PAYSTACK_SECRET_KEY is configured
    last,          \* the last handler call: inputs, response, outbound calls
    ledger,        \* add_credits calls made, per verified reference
    verifiedOk,    \* verification calls the gateway answered "success", per reference
    inflight,      \* success() requests waiting for the gateway's answer
    vresp,         \* a verify response handed to the try block of success()
    vout           \* what the try block did with vresp

vars == <<sessionRef, sessionEmail, secretKey, last, ledger, verifiedOk, inflight, vresp, vout>>

(***************************************************************************)
(* Bounds of the model.                                                    *)
(***************************************************************************)
\* product ids asked for at /checkout/<int:product_id> range over 0..MaxProductId
MaxProductId == 4
\* distinct random suffixes uuid4() can give one (email, product)
MaxNonce == 1
\* integers a metadata value carries range over -1..MaxValue
MaxValue == 2
\* longest metadata custom_fields list
MaxFields == 2
\* paid amounts (subunits) of the handler-level specifications: 0..MaxPaid
MaxPaid == 1
\* paid amounts (subunits) of the verification-level specification: 0..MaxAmount
MaxAmount == 30
\* verification requests that can be in flight at once
MaxInFlight == 2
\* add_credits calls recorded in the ledger
MaxLedger == 3

(***************************************************************************)
(* Python float arithmetic (IEEE 754 binary64, round-half-even), used by   *)
(* the fallback: int(verified_data['amount'] / 100 * 100).                 *)
(* A positive float is a 53-bit significand (most significant bit first)   *)
(* and the number s of its bits that lie after the binary point.           *)
(***************************************************************************)
MantissaBits == 53
SubunitsPerUnit == 100
\* the exact product is held in limbs of LimbBits bits
LimbBits == 13
Limbs == 5

\* the integer a sequence of bits (most significant first, below 2^31) denotes
RECURSIVE BitsToInt(_)
BitsToInt(bits) ==
    IF Len(bits) = 0 THEN 0
    ELSE IF Len(bits) = 1 THEN bits[1]
    ELSE LET h == Len(bits) \div 2
         IN  BitsToInt(SubSeq(bits, 1, Len(bits) - h)) * 2^h
                 + BitsToInt(SubSeq(bits, Len(bits) - h + 1, Len(bits)))

\* the number of bits of n >= 0, and its i-th bit from the front
BitLen(n) == CHOOSE l \in 0..30 : n < 2^l /\ (l = 0 \/ n >= 2^(l - 1))
IntBit(n, l, i) == (n \div 2^(l - i)) % 2

\* the bits of n >= 0 from the i-th to the j-th of its l bits
RECURSIVE IntBits(_, _, _, _)
IntBits(n, l, i, j) ==
    IF i > j THEN <<>>
    ELSE IF i = j THEN <<IntBit(n, l, i)>>
    ELSE LET m == (i + j) \div 2
         IN  IntBits(n, l, i, m) \o IntBits(n, l, m + 1, j)

\* n zero bits
RECURSIVE Zeros(_)
Zeros(n) ==
    IF n = 0 THEN <<>>
    ELSE IF n = 1 THEN <<0>>
    ELSE Zeros(n \div 2) \o Zeros(n - n \div 2)

\* bits + 1 for bits that are not all ones
IncrBits(bits) ==
    LET j == CHOOSE k \in 1..Len(bits) :
                 bits[k] = 0 /\ \A m \in (k + 1)..Len(bits) : bits[m] = 1
    IN  SubSeq(bits, 1, j - 1) \o <<1>> \o Zeros(Len(bits) - j)

AllOnes(bits) == \A i \in 1..Len(bits) : bits[i] = 1

\* the significand rounded up by one unit in the last place
RoundUp(sig, s) ==
    IF AllOnes(sig)
    THEN [sig |-> <<1>> \o Zeros(Len(sig) - 1), s |-> s - 1]
    ELSE [sig |-> IncrBits(sig), s |-> s]

\* 2^k mod 100
RECURSIVE Pow2Mod(_)
Pow2Mod(k) ==
    IF k = 0 THEN 1
    ELSE IF k % 2 = 0
         THEN LET h == Pow2Mod(k \div 2) IN (h * h) % SubunitsPerUnit
         ELSE (2 * Pow2Mod(k - 1)) % SubunitsPerUnit

\* long division of a by 100: the remainder after k bits of the fraction
\* ((a * 2^k) mod 100), and the k-th bit of the fraction
DivRem(a, k) == ((a % SubunitsPerUnit) * Pow2Mod(k)) % SubunitsPerUnit
FracBit(a, k) == IF 2 * DivRem(a, k - 1) >= SubunitsPerUnit THEN 1 ELSE 0

\* the bits of the fraction of a / 100 from the i-th to the j-th
RECURSIVE FracBits(_, _, _)
FracBits(a, i, j) ==
    IF i > j THEN <<>>
    ELSE IF i = j THEN <<FracBit(a, i)>>
    ELSE LET m == (i + j) \div 2
         IN  FracBits(a, i, m) \o FracBits(a, m + 1, j)

\* a / 100 for an int a > 0 (true division, correctly rounded)
FloatDiv100(a) ==
    LET ip == a \div SubunitsPerUnit
        l == BitLen(ip)
        z == IF l > 0 THEN 1
             ELSE CHOOSE k \in 1..7 :
                      FracBit(a, k) = 1 /\ \A j \in 1..(k - 1) : FracBit(a, j) = 0
        s == IF l > 0 THEN MantissaBits - l ELSE z + MantissaBits - 1
        sig == IntBits(ip, l, 1, l) \o FracBits(a, z, s)
        r == DivRem(a, s)
        up == \/ 2 * r > SubunitsPerUnit
              \/ 2 * r = SubunitsPerUnit /\ sig[MantissaBits] = 1
    IN  IF up THEN RoundUp(sig, s) ELSE [sig |-> sig, s |-> s]

\* the j-th limb (j = 0 the lowest) of a significand
Limb(sig, j) ==
    LET hi == MantissaBits - LimbBits * j
        lo == IF hi - LimbBits + 1 < 1 THEN 1 ELSE hi - LimbBits + 1
    IN  BitsToInt(SubSeq(sig, lo, hi))

\* sig * 100, limb by limb: the limbs of the product up to the j-th, lowest
\* last, and the carry out of the j-th
RECURSIVE MulLimbs(_, _)
MulLimbs(sig, j) ==
    LET below == IF j = 0 THEN [limbs |-> <<>>, carry |-> 0] ELSE MulLimbs(sig, j - 1)
        t == Limb(sig, j) * SubunitsPerUnit + below.carry
    IN  [limbs |-> <<t % 2^LimbBits>> \o below.limbs, carry |-> t \div 2^LimbBits]

\* the bits of the limbs, most significant first
RECURSIVE LimbsBits(_, _, _)
LimbsBits(limbs, i, j) ==
    IF i > j THEN <<>>
    ELSE IF i = j THEN IntBits(limbs[i], LimbBits, 1, LimbBits)
    ELSE LET m == (i + j) \div 2
         IN  LimbsBits(limbs, i, m) \o LimbsBits(limbs, m + 1, j)

\* x * 100 for a float x > 0 (correctly rounded)
FloatMul100(x) ==
    LET all == LimbsBits(MulLimbs(x.sig, Limbs - 1).limbs, 1, Limbs)
        lead == CHOOSE n \in 1..Len(all) : all[n] = 1 /\ \A q \in 1..(n - 1) : all[q] = 0
        p == SubSeq(all, lead, Len(all))
        drop == Len(p) - MantissaBits
        top == SubSeq(p, 1, MantissaBits)
        guard == p[MantissaBits + 1]
        sticky == \E i \in (MantissaBits + 2)..Len(p) : p[i] = 1
        up == guard = 1 /\ (sticky \/ top[MantissaBits] = 1)
    IN  IF up THEN RoundUp(top, x.s - drop) ELSE [sig |-> top, s |-> x.s - drop]

\* int(x): truncation toward zero of a float x > 0 below 2^31
FloatToInt(x) ==
    IF x.s >= MantissaBits THEN 0
    ELSE BitsToInt(SubSeq(x.sig, 1, MantissaBits - x.s))

\* int(amount / 100 * 100), lines 217 and 222
FallbackCredits(amount) ==
    IF amount = 0 THEN 0 ELSE FloatToInt(FloatMul100(FloatDiv100(amount)))

(***************************************************************************)
(* JSON values of the gateway's responses.                                 *)
(***************************************************************************)
\* response_data.get('status'): true, false, or no such key
StatusFlags == {"true", "false", "absent"}

\* a metadata value: k = "int" (the integer n), "str" (the decimal string of
\* n), "float" (n halves, i.e. n/2), "text" (a string that is no number),
\* "null", or "missing" (the field has no 'value' key)
Val(k, n) == [k |-> k, n |-> n]

Values ==
    {Val("int", n) : n \in (0 - 1)..MaxValue}
        \cup {Val("str", n) : n \in 0..MaxValue}
        \cup {Val("float", n) : n \in {0 - 3, 1, 3}}
        \cup {Val("text", 0), Val("null", 0), Val("missing", 0)}

\* Python's int(v): the integer, or the exception it raises
PyInt(v) ==
    CASE v.k = "int" -> [ok |-> TRUE, n |-> v.n]
      [] v.k = "str" -> [ok |-> TRUE, n |-> v.n]
      [] v.k = "float" ->
            [ok |-> TRUE,
             n |-> IF v.n >= 0 THEN v.n \div 2 ELSE 0 - ((0 - v.n) \div 2)]
      [] OTHER -> [ok |-> FALSE, n |-> 0]

CreditsField == "credits_to_add"

Field(name, v) == [variable_name |-> name, value |-> v]

Fields == {Field(CreditsField, v) : v \in Values} \cup {Field("plan", Val("int", 1))}

\* verified_data['metadata']: absent, not a dict, or a dict with or without
\* a custom_fields list
Meta(k, cf) == [k |-> k, custom_fields |-> cf]

FieldLists(n) == UNION {[1..m -> Fields] : m \in 0..n}

Metas(n) ==
    {Meta("absent", <<>>), Meta("notdict", <<>>), Meta("nolist", <<>>)}
        \cup {Meta("dict", cf) : cf \in FieldLists(n)}

NoEmail == "<none>"
SessionEmails == {NoEmail, "ann@x.io"}
VerifiedEmails == {NoEmail, "ann@x.io", "bob@y.io"}

NoText == "<none>"
TxStatuses == {NoText, "success", "failed", "abandoned"}
GatewayTexts == {NoText, "Declined"}

\* response_data['data'] of a verify response
Data(present, st, gw, meta, hasAmount, amount, email) ==
    [present |-> present, status |-> st, gateway_response |-> gw, metadata |-> meta,
     has_amount |-> hasAmount, amount |-> amount, email |-> email]

NoData == Data(FALSE, NoText, NoText, Meta("absent", <<>>), FALSE, 0, NoEmail)

\* kind: what requests.get / response.json() gave: a transport error, a body
\* that is no JSON (requests raises its JSONDecodeError, a RequestException),
\* JSON that is no object, or a JSON object
RespKinds == {"json", "transport", "invalid_json", "not_object"}

Resp(kind, status, data) == [kind |-> kind, status |-> status, data |-> data]

FailedResps == {Resp(k, "absent", NoData) : k \in RespKinds \ {"json"}}

NoResp == Resp("none", "absent", NoData)

(***************************************************************************)
(* success(): the body of the try block, lines 195-245.                    *)
(***************************************************************************)
\* lines 209-213: the first custom field named credits_to_add, converted
RECURSIVE ScanCredits(_, _)
ScanCredits(cf, i) ==
    IF i > Len(cf) THEN [ok |-> TRUE, n |-> 0]
    ELSE IF cf[i].variable_name = CreditsField
         THEN IF cf[i].value.k = "missing" THEN [ok |-> FALSE, n |-> 0]
              ELSE PyInt(cf[i].value)
         ELSE ScanCredits(cf, i + 1)

\* line 210: verified_data.get('metadata', {}).get('custom_fields', [])
MetadataCredits(meta) ==
    CASE meta.k = "notdict" -> [ok |-> FALSE, n |-> 0]
      [] meta.k = "dict" -> ScanCredits(meta.custom_fields, 1)
      [] OTHER -> [ok |-> TRUE, n |-> 0]

\* lines 209-222: credits_to_add, or the exception raised on the way
\* FallbackCredits, tabulated
FallbackTable == [amount \in 0..MaxAmount |-> FallbackCredits(amount)]

ResolveCreditsFromAmount(data) ==
    IF data.has_amount THEN [ok |-> TRUE, n |-> FallbackTable[data.amount]]
    ELSE [ok |-> FALSE, n |-> 0]

ResolveCredits(data) ==
    LET m == MetadataCredits(data.metadata)
    IN  IF ~m.ok THEN m
        ELSE IF m.n = 0
             THEN IF data.has_amount
                  THEN [ok |-> TRUE, n |-> FallbackTable[data.amount]]
                  ELSE [ok |-> FALSE, n |-> 0]
             ELSE m

\* line 225: the account credited
CreditEmailFromSession(data, sessEmail) == sessEmail

CreditEmail(data, sessEmail) == data.email

\* line 199
VerifiedAlways(resp) == resp.status = "true" /\ resp.data.present

Verified(resp) ==
    resp.status = "true" /\ resp.data.present /\ resp.data.status = "success"

NoCredit == [called |-> FALSE, email |-> NoEmail, amount |-> 0]

Outcome(flash, credit) == [flash |-> flash, credit |-> credit]

VerifyOutcome(resp, sessEmail) ==
    CASE resp.kind \in {"transport", "invalid_json"} ->
            Outcome("connection_error", NoCredit)
      [] resp.kind = "not_object" ->
            Outcome("internal_error", NoCredit)
      [] OTHER ->
            IF resp.status = "true"
            THEN IF ~resp.data.present \/ resp.data.status = NoText
                 THEN Outcome("internal_error", NoCredit)
                 ELSE IF Verified(resp)
                      THEN LET c == ResolveCredits(resp.data)
                               e == CreditEmail(resp.data, sessEmail)
                           IN  IF ~c.ok \/ resp.data.email = NoEmail
                               THEN Outcome("internal_error", NoCredit)
                               ELSE Outcome("credited",
                                            [called |-> TRUE, email |-> e,
                                             amount |-> c.n])
                      ELSE Outcome("payment_failed", NoCredit)
            ELSE IF ~resp.data.present \/ resp.data.status = NoText
                 THEN Outcome("internal_error", NoCredit)
                 ELSE Outcome("payment_failed", NoCredit)

(***************************************************************************)
(* The catalog, the session and the transaction reference.                 *)
(***************************************************************************)
\* lines 70-74: the products, price in major units
products ==
    <<[id |-> 1, price |-> 5, credits |-> 500],
      [id |-> 2, price |-> 10, credits |-> 1200],
      [id |-> 3, price |-> 20, credits |-> 2500]>>

ProductIds == 0..MaxProductId

\* line 102: next(p for p in products if p['id'] == product_id)
FindProductDefaulting(product_id) ==
    IF \E i \in 1..Len(products) : products[i].id = product_id
    THEN [found |-> TRUE,
          product |-> products[CHOOSE i \in 1..Len(products) : products[i].id = product_id]]
    ELSE [found |-> TRUE, product |-> products[1]]

FindProduct(product_id) ==
    IF \E i \in 1..Len(products) : products[i].id = product_id
    THEN [found |-> TRUE,
          product |-> products[CHOOSE i \in 1..Len(products) : products[i].id = product_id]]
    ELSE [found |-> FALSE, product |-> products[1]]

\* user_email[:4].upper()
EmailPrefix(email) ==
    CASE email = "ann@x.io" -> "ANN@"
      [] email = "bob@y.io" -> "BOB@"
      [] OTHER -> ""

\* lines 78-82: LUNES-<prefix>-<product_id>-<random hex>
generate_paystack_reference(user_email, product_id, nonce) ==
    [prefix |-> EmailPrefix(user_email), product_id |-> product_id, nonce |-> nonce]

\* no reference: the session key is absent, the query parameter absent or empty
NoRef == [prefix |-> "", product_id |-> 0, nonce |-> 0]

Refs ==
    {generate_paystack_reference(e, products[i].id, n) :
        e \in SessionEmails \ {NoEmail}, i \in 1..Len(products), n \in 1..MaxNonce}

NoPayload == [email |-> NoEmail, amount |-> 0, reference |-> NoRef, credits |-> 0]

\* lines 111, 133-144: the body of the initialize request
Payload(product, user_email, reference) ==
    [email |-> user_email, amount |-> product.price * SubunitsPerUnit,
     reference |-> reference, credits |-> product.credits]

\* an initialize response: kind as for a verify response; data is "absent",
\* "null", "no_url" (an object without authorization_url) or "url"
InitResp(kind, status, data) == [kind |-> kind, status |-> status, data |-> data]

NoInitResp == InitResp("none", "absent", "absent")

InitResps ==
    {InitResp(k, "absent", "absent") : k \in RespKinds \ {"json"}}
        \cup {InitResp("json", st, d) :
                st \in StatusFlags, d \in {"absent", "null", "no_url", "url"}}

\* what the handler call being answered did (NoCall between requests): its inputs, the session before it, its response
\* ("exception" when the handler raised), the outbound calls it made, the
\* initialize payload it sent, and its add_credits call
Call(op, product_id, query, resp, iresp, before, response, calls, sent, credit, flash) ==
    [op |-> op, product_id |-> product_id, query |-> query, resp |-> resp,
     iresp |-> iresp, before |-> before, response |-> response, calls |-> calls,
     sent |-> sent, credit |-> credit, flash |-> flash]

NoCall ==
    Call("none", 0, NoRef, NoResp, NoInitResp, NoRef, "none", 0, NoPayload, NoCredit, "none")

Redirects ==
    {"redirect:store.store_page", "redirect:user.index", "redirect:authorization_url"}

(***************************************************************************)
(* The handlers, each one request served from start to end.                *)
(***************************************************************************)
handlerIdle == UNCHANGED <<ledger, verifiedOk, inflight, vresp, vout>>

\* lines 87-91
StorePage ==
    /\ last = NoCall
    /\ last' = Call("store_page", 0, NoRef, NoResp, NoInitResp, sessionRef,
                    "render:store.html", 0, NoPayload, NoCredit, "none")
    /\ UNCHANGED <<sessionRef, sessionEmail, secretKey>>
    /\ handlerIdle

\* lines 151-153: the reference is kept only under a true status flag
StoreReferenceAlways(iresp, sess, reference) == reference

StoreReference(iresp, sess, reference) ==
    IF iresp.kind = "json" /\ iresp.status = "true" THEN reference ELSE sess

\* lines 147-166: the response to the browser, "exception" when the handler
\* raises something other than a RequestException
CheckoutResponse(iresp) ==
    CASE iresp.kind \in {"transport", "invalid_json"} ->
            [response |-> "redirect:user.index", flash |-> "connection_error"]
      [] iresp.kind = "not_object" ->
            [response |-> "exception", flash |-> "none"]
      [] OTHER ->
            IF iresp.status = "true"
            THEN IF iresp.data = "url"
                 THEN [response |-> "redirect:authorization_url", flash |-> "none"]
                 ELSE [response |-> "exception", flash |-> "none"]
            ELSE [response |-> "redirect:user.index", flash |-> "initiation_failed"]

\* lines 94-166
Checkout ==
    /\ last = NoCall
    /\ \E product_id \in ProductIds, nonce \in 1..MaxNonce, iresp \in InitResps :
        LET f == FindProduct(product_id)
            reference == generate_paystack_reference(sessionEmail, product_id, nonce)
            r == CheckoutResponse(iresp)
        IN  /\ IF ~f.found
               THEN /\ last' = Call("checkout", product_id, NoRef, NoResp, NoInitResp,
                                    sessionRef, "redirect:store.store_page", 0,
                                    NoPayload, NoCredit, "invalid_product")
                    /\ UNCHANGED sessionRef
               ELSE IF sessionEmail = NoEmail
               THEN /\ last' = Call("checkout", product_id, NoRef, NoResp, NoInitResp,
                                    sessionRef, "redirect:user.index", 0,
                                    NoPayload, NoCredit, "no_email")
                    /\ UNCHANGED sessionRef
               ELSE IF ~secretKey
               THEN /\ last' = Call("checkout", product_id, NoRef, NoResp, NoInitResp,
                                    sessionRef, "redirect:user.index", 0,
                                    NoPayload, NoCredit, "not_configured")
                    /\ UNCHANGED sessionRef
               ELSE /\ sessionRef' = StoreReference(iresp, sessionRef, reference)
                    /\ last' = Call("checkout", product_id, NoRef, NoResp, iresp,
                                    sessionRef, r.response, 1,
                                    Payload(f.product, sessionEmail, reference),
                                    NoCredit, r.flash)
            /\ UNCHANGED <<sessionEmail, secretKey>>
            /\ handlerIdle

\* line 177: request.args.get('reference') or session.get('paystack_reference')
Reference(query, sess) == IF query # NoRef THEN query ELSE sess

\* line 184: session.pop('paystack_reference', None)
ClearPendingIfUsed(query, sess) == IF query = NoRef \/ query = sess THEN NoRef ELSE sess

ClearPending(query, sess) == NoRef

\* the verify responses the handler-level specification draws from
HandlerMetas ==
    Metas(0) \cup {Meta("dict", <<Field(CreditsField, Val("int", n))>>) : n \in 0..1}

HandlerData ==
    {Data(TRUE, st, gw, meta, ha, IF ha THEN a ELSE 0, e) :
        st \in TxStatuses, gw \in GatewayTexts, meta \in HandlerMetas,
        ha \in BOOLEAN, a \in 0..MaxPaid, e \in VerifiedEmails}

VerifyResps ==
    FailedResps
        \cup {Resp("json", st, d) : st \in StatusFlags, d \in {NoData} \cup HandlerData}

\* lines 169-245
Success ==
    /\ last = NoCall
    /\ \E query \in {NoRef} \cup Refs, resp \in VerifyResps :
        LET reference == Reference(query, sessionRef)
            out == VerifyOutcome(resp, sessionEmail)
        IN  /\ IF reference = NoRef
               THEN /\ last' = Call("success", 0, query, NoResp, NoInitResp, sessionRef,
                                    "redirect:user.index", 0, NoPayload, NoCredit,
                                    "no_reference")
                    /\ UNCHANGED sessionRef
               ELSE /\ sessionRef' = ClearPending(query, sessionRef)
                    /\ last' = Call("success", 0, query, resp, NoInitResp, sessionRef,
                                    "redirect:user.index", 1,
                                    [NoPayload EXCEPT !.reference = reference],
                                    out.credit, out.flash)
            /\ UNCHANGED <<sessionEmail, secretKey>>
            /\ handlerIdle

\* line 255: session.pop('paystack_reference', None)
CancelSessionKept(sess) == sess

CancelSession(sess) == NoRef

\* lines 248-258
Cancel ==
    /\ last = NoCall
    /\ sessionRef' = CancelSession(sessionRef)
    /\ last' = Call("cancel", 0, NoRef, NoResp, NoInitResp, sessionRef,
                    "redirect:user.index", 0, NoPayload, NoCredit, "cancelled")
    /\ UNCHANGED <<sessionEmail, secretKey>>
    /\ handlerIdle

\* the response goes out and the request is over: the next request can be served
Deliver ==
    /\ last # NoCall
    /\ last' = NoCall
    /\ UNCHANGED <<sessionRef, sessionEmail, secretKey>>
    /\ handlerIdle

NoCounts == [r \in Refs |-> 0]
Idle == [pc |-> "idle", reference |-> NoRef]
NotApplied == Outcome("pending", NoCredit)

Init ==
    /\ sessionRef = NoRef
    /\ sessionEmail \in SessionEmails
    /\ secretKey \in BOOLEAN
    /\ last = NoCall
    /\ ledger = NoCounts
    /\ verifiedOk = NoCounts
    /\ inflight = [i \in 1..MaxInFlight |-> Idle]
    /\ vresp = NoResp
    /\ vout = NotApplied

Next == StorePage \/ Checkout \/ Success \/ Cancel \/ Deliver

Spec == Init /\ [][Next]_vars

(***************************************************************************)
(* Overlapping verification requests: success() split where it blocks on   *)
(* the gateway (line 196).  Nothing is shared between requests but the     *)
(* session and the account credited.                                       *)
(***************************************************************************)
RECURSIVE Total(_, _)
Total(f, S) ==
    IF S = {} THEN 0
    ELSE LET r == CHOOSE x \in S : TRUE IN f[r] + Total(f, S \ {r})

Waiting == {i \in 1..MaxInFlight : inflight[i].pc = "waiting"}

\* line 226: add_credits(user_email, credits_to_add), recorded per reference
AddCreditsOnce(counts, reference) ==
    IF counts[reference] > 0 THEN counts ELSE [counts EXCEPT ![reference] = @ + 1]

AddCredits(counts, reference) == [counts EXCEPT ![reference] = @ + 1]

\* the gateway's answers to the overlapping requests
ConcResps ==
    {Resp("transport", "absent", NoData),
     Resp("json", "true",
          Data(TRUE, "failed", "Declined", Meta("absent", <<>>), TRUE, 1, "ann@x.io")),
     Resp("json", "true",
          Data(TRUE, "success", NoText,
               Meta("dict", <<Field(CreditsField, Val("int", 1))>>), TRUE, 1, "ann@x.io"))}

\* lines 177-196: the reference is read, the session cleared, the request sent
\* (a call without any reference returns at once and changes nothing)
VerifyBegin(i) ==
    /\ inflight[i].pc = "idle"
    /\ Total(verifiedOk, Refs) + Cardinality(Waiting) < MaxLedger
    /\ \E query \in {NoRef} \cup Refs :
           LET reference == Reference(query, sessionRef)
           IN  /\ reference # NoRef
               /\ sessionRef' = ClearPending(query, sessionRef)
               /\ inflight' = [inflight EXCEPT
                                  ![i] = [pc |-> "waiting", reference |-> reference]]
    /\ UNCHANGED <<sessionEmail, secretKey, last, ledger, verifiedOk, vresp, vout>>

\* lines 197-245: the gateway's answer arrives and is acted on
VerifyFinish(i) ==
    /\ inflight[i].pc = "waiting"
    /\ \E resp \in ConcResps :
           LET out == VerifyOutcome(resp, sessionEmail)
               reference == inflight[i].reference
           IN  /\ ledger' = IF out.credit.called THEN AddCredits(ledger, reference)
                            ELSE ledger
               /\ verifiedOk' = IF resp.kind = "json" /\ resp.status = "true"
                                   /\ resp.data.status = "success"
                                 THEN [verifiedOk EXCEPT ![reference] = @ + 1]
                                 ELSE verifiedOk
    /\ inflight' = [inflight EXCEPT ![i] = Idle]
    /\ UNCHANGED <<sessionRef, sessionEmail, secretKey, last, vresp, vout>>

InitConc ==
    /\ sessionRef \in {NoRef} \cup Refs
    /\ sessionEmail = "ann@x.io"
    /\ secretKey = TRUE
    /\ last = NoCall
    /\ ledger = NoCounts
    /\ verifiedOk = NoCounts
    /\ inflight = [i \in 1..MaxInFlight |-> Idle]
    /\ vresp = NoResp
    /\ vout = NotApplied

NextConc == \E i \in 1..MaxInFlight : VerifyBegin(i) \/ VerifyFinish(i)

SpecConc == InitConc /\ [][NextConc]_vars

(***************************************************************************)
(* The try block of success() on the verified transactions the gateway     *)
(* can report: every metadata shape, every paid amount up to MaxAmount.    *)
(***************************************************************************)
VerifiedResps ==
    {Resp("json", "true",
          Data(TRUE, "success", NoText, meta, ha, IF ha THEN a ELSE 0, e)) :
        meta \in Metas(MaxFields), ha \in BOOLEAN, a \in 0..MaxAmount,
        e \in {NoEmail, "bob@y.io"}}

ApplyVerify ==
    /\ vout = NotApplied
    /\ vout' = VerifyOutcome(vresp, sessionEmail)
    /\ UNCHANGED <<sessionRef, sessionEmail, secretKey, last, ledger, verifiedOk,
                   inflight, vresp>>

InitVerify ==
    /\ sessionRef = NoRef
    /\ sessionEmail = "ann@x.io"
    /\ secretKey = TRUE
    /\ last = NoCall
    /\ ledger = NoCounts
    /\ verifiedOk = NoCounts
    /\ inflight = [i \in 1..MaxInFlight |-> Idle]
    /\ vresp \in VerifiedResps
    /\ vout = NotApplied

NextVerify == ApplyVerify

SpecVerify == InitVerify /\ [][NextVerify]_vars

(***************************************************************************)
(* The claims.                                                             *)
(***************************************************************************)
Verifying == last.op = "success"
Initiating == last.op = "checkout"

\* C1: a verification call applies a credit only when the gateway's verify
\* response has a true overall status flag and the transaction status
\* "success"; no other gateway outcome, and no call without a reference,
\* credits anything.
C1_CreditOnlyOnVerifiedSuccess ==
    (Verifying /\ last.credit.called) =>
        /\ last.calls = 1
        /\ last.sent.reference # NoRef
        /\ last.resp.kind = "json"
        /\ last.resp.status = "true"
        /\ last.resp.data.present
        /\ last.resp.data.status = "success"

\* a transaction the gateway reports as abandoned under a true overall flag,
\* with a credit field and a customer email, has been verified without credit
C1_Witness ==
    /\ Verifying
    /\ last.calls = 1
    /\ last.resp.status = "true"
    /\ last.resp.data.status = "abandoned"
    /\ last.resp.data.metadata = Meta("dict", <<Field(CreditsField, Val("int", 1))>>)
    /\ last.resp.data.email = "bob@y.io"
    /\ ~last.credit.called

\* C2: every verification call the gateway answers "success" calls the credit
\* collaborator, whether or not the reference was credited before and whether
\* the calls follow or overlap each other: per reference, the credits applied
\* are as many as the successful verification calls.
C2_CreditedOncePerCall == \A r \in Refs : ledger[r] = verifiedOk[r]

\* one reference has been credited twice
C2_Witness == \E r \in Refs : ledger[r] = 2 /\ verifiedOk[r] = 2

\* the value of the first custom field named credits_to_add, if there is one
HasCreditsField(meta) ==
    meta.k = "dict" /\ \E i \in 1..Len(meta.custom_fields) :
                            meta.custom_fields[i].variable_name = CreditsField

FirstCreditsValue(meta) ==
    LET i == CHOOSE k \in 1..Len(meta.custom_fields) :
                 /\ meta.custom_fields[k].variable_name = CreditsField
                 /\ \A j \in 1..(k - 1) :
                        meta.custom_fields[j].variable_name # CreditsField
    IN  meta.custom_fields[i].value

\* the value is the integer n, as a JSON number or as its decimal string
IsInteger(v) == v.k \in {"int", "str"}

\* the value is one int() turns into zero: 0, "0", or a fraction below one
IsZero(v) == (IsInteger(v) /\ v.n = 0) \/ (v.k = "float" /\ v.n \in {0 - 1, 0, 1})

Applied == vout # NotApplied

\* C3 as stated: a verified transaction whose metadata credit field holds an
\* integer (and that names a customer email) is credited exactly that
\* integer, whatever the integer.
C3_CreditsMetadataValue ==
    (Applied /\ HasCreditsField(vresp.data.metadata) /\ vresp.data.email # NoEmail) =>
        LET v == FirstCreditsValue(vresp.data.metadata)
        IN  (IsInteger(v) /\ vresp.data.has_amount) =>
                vout.credit.called /\ vout.credit.amount = v.n

\* C3 amended: a non-zero integer value of the credit field is credited
\* exactly, whatever the paid amount; a value int() turns into zero is
\* replaced by the fallback derived from the paid amount.
C3_CreditsNonZeroMetadataValue ==
    (Applied /\ HasCreditsField(vresp.data.metadata) /\ vresp.data.email # NoEmail) =>
        LET v == FirstCreditsValue(vresp.data.metadata)
        IN  /\ (IsInteger(v) /\ v.n # 0) =>
                   vout.credit.called /\ vout.credit.amount = v.n
            /\ (IsZero(v) /\ vresp.data.has_amount) =>
                   /\ vout.credit.called
                   /\ vout.credit.amount = FallbackTable[vresp.data.amount]

\* a credit field of 2 on a transaction that paid 1 has been credited as 2
C3_Witness ==
    /\ Applied
    /\ vresp.data.metadata = Meta("dict", <<Field(CreditsField, Val("int", 2))>>)
    /\ vresp.data.has_amount
    /\ vresp.data.amount = 1
    /\ vout.credit.called
    /\ vout.credit.amount = 2

\* C4: the account credited is the one of the customer email in the verified
\* transaction, whatever email the session holds.
C4_CreditsVerifiedEmail ==
    (Verifying /\ last.credit.called) =>
        /\ last.resp.data.email # NoEmail
        /\ last.credit.email = last.resp.data.email

\* a session of ann has credited bob, the customer of the verified transaction
C4_Witness ==
    /\ Verifying
    /\ last.credit.called
    /\ sessionEmail = "ann@x.io"
    /\ last.resp.data.email = "bob@y.io"
    /\ last.credit.email = "bob@y.io"

\* C5: every path through initiate, verify and cancel ends in a redirect
\* response, whatever the gateway answers (the catalog listing ends in the
\* rendered page, and is left out of the statement).
C5_EveryPathRedirects ==
    last.op \in {"checkout", "success", "cancel"} => last.response \in Redirects

\* C6: when a verification call has returned, whatever its outcome, the
\* session holds no pending reference.
C6_NoPendingAfterVerify == Verifying => sessionRef = NoRef

\* a call whose query reference differs from the one the session held has
\* returned
C6_Witness ==
    /\ Verifying
    /\ last.query # NoRef
    /\ last.before # NoRef
    /\ last.query # last.before
    /\ sessionRef = NoRef

\* C7: a verified transaction whose metadata credit field is missing or zero
\* is credited floor(paid/100 * 100), which for every non-negative integer
\* paid amount is the paid amount itself.
NoCreditsField(meta) ==
    \/ meta.k \in {"absent", "nolist"}
    \/ meta.k = "dict" /\ ~HasCreditsField(meta)

C7_FallbackCreditsPaidAmount ==
    (/\ Applied
     /\ vresp.data.email # NoEmail
     /\ vresp.data.has_amount
     /\ \/ NoCreditsField(vresp.data.metadata)
        \/ /\ HasCreditsField(vresp.data.metadata)
           /\ IsZero(FirstCreditsValue(vresp.data.metadata))) =>
        vout.credit.called /\ vout.credit.amount = vresp.data.amount

\* C8: initiation for a product id that matches no catalog entry makes no
\* outbound call, redirects to the catalog and leaves the pending reference
\* as it was.
UnknownProduct(product_id) == \A i \in 1..Len(products) : products[i].id # product_id

C8_UnknownProductRejected ==
    (Initiating /\ UnknownProduct(last.product_id)) =>
        /\ last.calls = 0
        /\ last.sent = NoPayload
        /\ last.response = "redirect:store.store_page"
        /\ sessionRef = last.before

\* an unknown product id has been asked for while a reference was pending
C8_Witness ==
    /\ Initiating
    /\ UnknownProduct(last.product_id)
    /\ last.before # NoRef
    /\ sessionEmail # NoEmail
    /\ secretKey

\* C9: cancellation makes no outbound call, credits nothing, and leaves the
\* session without a pending reference.
C9_CancelClearsOnly ==
    last.op = "cancel" =>
        /\ last.calls = 0
        /\ ~last.credit.called
        /\ sessionRef = NoRef

\* a cancellation has returned that found a pending reference
C9_Witness == last.op = "cancel" /\ last.before # NoRef /\ sessionRef = NoRef

\* C10: initiation stores the pending reference only under a true status flag
\* of the initialize response, and then stores the reference it sent; on
\* every other outcome the session is as before and the response is no
\* redirect to a checkout URL; it makes at most one outbound call.
C10_ReferenceStoredOnTrueFlag ==
    Initiating =>
        /\ last.calls \in {0, 1}
        /\ IF last.iresp.kind = "json" /\ last.iresp.status = "true"
           THEN /\ last.calls = 1
                /\ last.sent.reference # NoRef
                /\ sessionRef = last.sent.reference
           ELSE /\ sessionRef = last.before
                /\ last.response # "redirect:authorization_url"

\* an initiation has been sent to the checkout URL, its reference replacing
\* an older pending one
C10_Witness ==
    /\ Initiating
    /\ last.response = "redirect:authorization_url"
    /\ last.before # NoRef
    /\ last.before # last.sent.reference
    /\ sessionRef = last.sent.reference

====
